---- MODULE Spec2Model ----
(***************************************************************************)
(* Model of the st2contrib email pack actions:                             *)
(*   packs/email/actions/process_email_headers.py  (ProcessEmailHeaders)   *)
(*   packs/email/actions/send_html_email.py        (SendEmail)             *)
(*                                                                         *)
(* A Python str is a sequence of one-character strings, so that split,     *)
(* parseaddr, formataddr, join and re.search are computed character by     *)
(* character.  An address tuple (display-name, email-address) is the pair  *)
(* <<name, email>>; Python's addr_tuple[1] is the second component.        *)
(* The model's alphabet is letters, digits and the characters              *)
(* "@" "." "," " " "<" ">" and the double quote (output only).             *)
(***************************************************************************)
EXTENDS Integers, Sequences, FiniteSets, TLC

\* ------------------------------------------------------------------------
\* Header names (process_email_headers.py lines 13-18)
TO_HEADER_STRING == "To"
FROM_HEADER_STRING == "From"
CC_HEADER_STRING == "Cc"
DELIVERED_TO_HEADER_STRING == "Delivered-To"
REFERENCES_STRING == "References"
MESSAGE_ID_STRING == "Message-Id"

\* ------------------------------------------------------------------------
\* str primitives

\* sep occurs in s at position i
StartsAt(s, sep, i) ==
  /\ i + Len(sep) - 1 <= Len(s)
  /\ \A k \in 1..Len(sep) : s[i + k - 1] = sep[k]

\* position of the first occurrence of sep in s, 0 when there is none
Find(s, sep) ==
  IF \E i \in 1..Len(s) : StartsAt(s, sep, i)
  THEN CHOOSE i \in 1..Len(s) :
         StartsAt(s, sep, i) /\ \A j \in 1..(i - 1) : ~StartsAt(s, sep, j)
  ELSE 0

\* str.split(sep) for a non-empty separator: ''.split(',') = ['']
RECURSIVE split(_, _)
split(s, sep) ==
  LET i == Find(s, sep)
  IN IF i = 0 THEN <<s>>
     ELSE <<SubSeq(s, 1, i - 1)>> \o split(SubSeq(s, i + Len(sep), Len(s)), sep)

\* sep.join(list)
RECURSIVE join(_, _)
join(sep, list) ==
  IF list = <<>> THEN <<>>
  ELSE IF Len(list) = 1 THEN list[1]
  ELSE list[1] \o sep \o join(sep, Tail(list))

\* ------------------------------------------------------------------------
\* email.utils.parseaddr: the address-list parser of the standard library
\* (AddrlistClass), on the model's alphabet (no comments, quotes, groups or
\* domain literals occur in it).  A position past the end is Len(f) + 1.
LWS == {" ", "\t"}
FWS == {" ", "\t", "\r", "\n"}
specials == {"(", ")", "<", ">", "@", ",", ":", ";", ".", "\"", "[", "]"}
atomends == specials \cup FWS
phraseends == atomends \ {"."}

RECURSIVE gotonext(_, _)
gotonext(f, pos) ==
  IF pos <= Len(f) /\ f[pos] \in FWS THEN gotonext(f, pos + 1) ELSE pos

RECURSIVE getatom(_, _, _)
getatom(f, pos, ends) ==
  IF pos <= Len(f) /\ f[pos] \notin ends
  THEN LET r == getatom(f, pos + 1, ends)
       IN [pos |-> r.pos, val |-> <<f[pos]>> \o r.val]
  ELSE [pos |-> pos, val |-> <<>>]

RECURSIVE getphraselist(_, _)
getphraselist(f, pos) ==
  IF pos > Len(f) THEN [pos |-> pos, plist |-> <<>>]
  ELSE IF f[pos] \in FWS THEN getphraselist(f, pos + 1)
  ELSE IF f[pos] \in phraseends THEN [pos |-> pos, plist |-> <<>>]
  ELSE LET a == getatom(f, pos, phraseends)
           r == getphraselist(f, a.pos)
       IN [pos |-> r.pos, plist |-> <<a.val>> \o r.plist]

RECURSIVE getdomain(_, _)
getdomain(f, pos) ==
  IF pos > Len(f) THEN [pos |-> pos, val |-> <<>>]
  ELSE IF f[pos] \in LWS THEN getdomain(f, pos + 1)
  ELSE IF f[pos] = "."
       THEN LET r == getdomain(f, pos + 1)
            IN [pos |-> r.pos, val |-> <<".">> \o r.val]
  ELSE IF f[pos] \in atomends THEN [pos |-> pos, val |-> <<>>]
  ELSE LET a == getatom(f, pos, atomends)
           r == getdomain(f, a.pos)
       IN [pos |-> r.pos, val |-> a.val \o r.val]

\* the local-part loop of getaddrspec
RECURSIVE getlocalpart(_, _)
getlocalpart(f, pos) ==
  IF pos > Len(f) THEN [pos |-> pos, val |-> <<>>]
  ELSE IF f[pos] = "."
       THEN LET r == getlocalpart(f, gotonext(f, pos + 1))
            IN [pos |-> r.pos, val |-> <<".">> \o r.val]
  ELSE IF f[pos] \in atomends THEN [pos |-> pos, val |-> <<>>]
  ELSE LET a == getatom(f, pos, atomends)
           r == getlocalpart(f, gotonext(f, a.pos))
       IN [pos |-> r.pos, val |-> a.val \o r.val]

getaddrspec(f, pos) ==
  LET l == getlocalpart(f, gotonext(f, pos))
  IN IF l.pos > Len(f) \/ f[l.pos] # "@" THEN l
     ELSE LET d == getdomain(f, gotonext(f, l.pos + 1))
          IN [pos |-> d.pos, val |-> l.val \o <<"@">> \o d.val]

\* the loop of getrouteaddr, entered after the "<"
RECURSIVE getroute(_, _, _)
getroute(f, pos, expectroute) ==
  IF pos > Len(f) THEN [pos |-> pos, val |-> <<>>]
  ELSE IF expectroute
       THEN getroute(f, gotonext(f, getdomain(f, pos).pos), FALSE)
  ELSE IF f[pos] = ">" THEN [pos |-> pos + 1, val |-> <<>>]
  ELSE IF f[pos] = "@" THEN getroute(f, gotonext(f, pos + 1), TRUE)
  ELSE LET a == getaddrspec(f, pos)
       IN [pos |-> a.pos + 1, val |-> a.val]

getrouteaddr(f, pos) == getroute(f, gotonext(f, pos + 1), FALSE)

\* getaddress at the start of the field: the list of (name, address) pairs
getaddress(f) ==
  LET oldpos == gotonext(f, 1)
      ph == getphraselist(f, oldpos)
      pos == gotonext(f, ph.pos)
  IN IF pos > Len(f)
     THEN IF ph.plist # <<>> THEN << <<<<>>, ph.plist[1]>> >> ELSE <<>>
     ELSE IF f[pos] \in {".", "@"}
          THEN << <<<<>>, getaddrspec(f, oldpos).val>> >>
     ELSE IF f[pos] = "<"
          THEN << <<join(<<" ">>, ph.plist), getrouteaddr(f, pos).val>> >>
     ELSE IF ph.plist # <<>> THEN << <<<<>>, ph.plist[1]>> >> ELSE <<>>

\* parseaddr(addr): the first address of the list, or ('', '')
parseaddr(addr) ==
  LET addrs == IF addr = <<>> THEN <<>> ELSE getaddress(addr)
  IN IF addrs = <<>> THEN <<<<>>, <<>>>> ELSE addrs[1]

\* formataddr with the address always put in angle brackets
formataddr_brackets(pair) ==
  IF pair[1] # <<>>
  THEN LET quotes == IF \E k \in 1..Len(pair[1]) :
                          pair[1][k] \in {"[", "]", "\\", "(", ")", "<", ">", "@",
                                          ",", ":", ";", "\"", "."}
                     THEN <<"\"">> ELSE <<>>
       IN quotes \o pair[1] \o quotes \o <<" ", "<">> \o pair[2] \o <<">">>
  ELSE <<"<">> \o pair[2] \o <<">">>

\* email.utils.formataddr(pair): the bare address when the name is empty,
\* the name quoted when it holds a special character
specialsre == {"[", "]", "\\", "(", ")", "<", ">", "@", ",", ":", ";", "\"", "."}

formataddr(pair) ==
  IF pair[1] # <<>>
  THEN LET quotes == IF \E k \in 1..Len(pair[1]) : pair[1][k] \in specialsre
                     THEN <<"\"">> ELSE <<>>
       IN quotes \o pair[1] \o quotes \o <<" ", "<">> \o pair[2] \o <<">">>
  ELSE pair[2]

\* ------------------------------------------------------------------------
\* re.search on the model's alphabet, where "." is the only metacharacter
\* a pattern fragment can hold.

\* the pattern fragment pat matches s[i .. i + Len(pat) - 1]
ReMatchAt(pat, s, i) ==
  /\ i >= 1
  /\ i + Len(pat) - 1 <= Len(s)
  /\ \A k \in 1..Len(pat) : pat[k] = "." \/ pat[k] = s[i + k - 1]

\* re.search('@' + domain + '$', s)
ReSearchDomain(domain, s) ==
  LET pat == <<"@">> \o domain
  IN ReMatchAt(pat, s, Len(s) - Len(pat) + 1)

\* re.search('^' + user + '$', s)
ReSearchUser(user, s) == Len(user) = Len(s) /\ ReMatchAt(user, s, 1)

\* ------------------------------------------------------------------------
\* ProcessEmailHeaders

\* the address tuples of one header value: split on ',' and parseaddr
\* each segment (lines 52-54)
AddrTuples(value) ==
  LET segs == split(value, <<",">>)
  IN {parseaddr(segs[i]) : i \in 1..Len(segs)}

\* the set a recognised address header is collected in (lines 55-62)
HeaderField(name) ==
  CASE name = FROM_HEADER_STRING -> "header_from"
    [] name = TO_HEADER_STRING -> "header_to"
    [] name = CC_HEADER_STRING -> "header_cc"
    [] name = DELIVERED_TO_HEADER_STRING -> "header_self"

\* the loop body with the From branch falling through to the To branch
AddHeader_fallthrough(acc, header) ==
  IF header[1] = FROM_HEADER_STRING
  THEN [acc EXCEPT !.header_from = @ \cup AddrTuples(header[2]),
                   !.header_to = @ \cup AddrTuples(header[2])]
  ELSE IF header[1] \in {TO_HEADER_STRING, CC_HEADER_STRING,
                         DELIVERED_TO_HEADER_STRING}
  THEN [acc EXCEPT ![HeaderField(header[1])] = @ \cup AddrTuples(header[2])]
  ELSE IF header[1] = REFERENCES_STRING
  THEN [acc EXCEPT !.header_references = @ \o header[2]]
  ELSE IF header[1] = MESSAGE_ID_STRING
  THEN [acc EXCEPT !.header_reply_to = header[2]]
  ELSE acc

\* one iteration of the loop over the headers (lines 50-66); the header
\* names are distinct, so at most one of the three ifs applies
AddHeader(acc, header) ==
  IF header[1] \in {TO_HEADER_STRING, FROM_HEADER_STRING, CC_HEADER_STRING,
                    DELIVERED_TO_HEADER_STRING}
  THEN [acc EXCEPT ![HeaderField(header[1])] = @ \cup AddrTuples(header[2])]
  ELSE IF header[1] = REFERENCES_STRING
  THEN [acc EXCEPT !.header_references = @ \o header[2]]
  ELSE IF header[1] = MESSAGE_ID_STRING
  THEN [acc EXCEPT !.header_reply_to = header[2]]
  ELSE acc

RECURSIVE ParseLoop(_, _, _)
ParseLoop(headers_, i, acc) ==
  IF i > Len(headers_) THEN acc
  ELSE ParseLoop(headers_, i + 1, AddHeader(acc, headers_[i]))

\* lines 67-68: the message id is appended to the references
AppendReplyTo(acc) ==
  IF acc.header_reply_to # <<>>
  THEN [acc EXCEPT !.header_references = @ \o <<" ">> \o acc.header_reply_to]
  ELSE acc

\* parse_headers(headers) (lines 43-70)
parse_headers(headers_) ==
  AppendReplyTo(ParseLoop(headers_, 1,
    [header_to |-> {}, header_from |-> {}, header_cc |-> {},
     header_self |-> {}, header_references |-> <<>>,
     header_reply_to |-> <<>>]))

\* check_allowed with the users tried only when no domain is configured
check_allowed_elif(header_from_, allowed_domains_, allowed_users_) ==
  IF allowed_domains_ # <<>>
  THEN \E i \in 1..Len(allowed_domains_) : \E addr_tuple \in header_from_ :
         ReSearchDomain(allowed_domains_[i], addr_tuple[2])
  ELSE /\ allowed_users_ # <<>>
       /\ \E i \in 1..Len(allowed_users_) : \E addr_tuple \in header_from_ :
            ReSearchUser(allowed_users_[i], addr_tuple[2])

\* check_allowed (lines 83-93): the domains are tried first, then the users
check_allowed(header_from_, allowed_domains_, allowed_users_) ==
  IF /\ allowed_domains_ # <<>>
     /\ \E i \in 1..Len(allowed_domains_) : \E addr_tuple \in header_from_ :
          ReSearchDomain(allowed_domains_[i], addr_tuple[2])
  THEN TRUE
  ELSE IF /\ allowed_users_ # <<>>
          /\ \E i \in 1..Len(allowed_users_) : \E addr_tuple \in header_from_ :
               ReSearchUser(allowed_users_[i], addr_tuple[2])
  THEN TRUE
  ELSE FALSE

\* the exists flag of one enforced address (lines 108-123)
Exists(addr_tuple, header_to_, header_cc_, header_from_) ==
  \/ \E to_tuple \in header_to_ : addr_tuple[2] = to_tuple[2]
  \/ \E cc_tuple \in header_cc_ : addr_tuple[2] = cc_tuple[2]
  \/ \E from_tuple \in header_from_ : addr_tuple[2] = from_tuple[2]

RECURSIVE EnforceLoop(_, _, _, _, _)
EnforceLoop(enforce_cc_, i, header_to_, header_cc_, header_from_) ==
  IF i > Len(enforce_cc_) THEN header_cc_
  ELSE LET addr_tuple == parseaddr(enforce_cc_[i])
       IN EnforceLoop(enforce_cc_, i + 1, header_to_,
            IF Exists(addr_tuple, header_to_, header_cc_, header_from_)
            THEN header_cc_ ELSE header_cc_ \cup {addr_tuple},
            header_from_)

\* add_enforced_cc returning a new set that holds only the added addresses
add_enforced_cc_fresh(enforce_cc_, header_to_, header_cc_, header_from_) ==
  EnforceLoop(enforce_cc_, 1, header_to_, header_cc_, header_from_) \ header_cc_

\* add_enforced_cc (lines 107-126): header_cc grows as the loop runs
add_enforced_cc(enforce_cc_, header_to_, header_cc_, header_from_) ==
  EnforceLoop(enforce_cc_, 1, header_to_, header_cc_, header_from_)

\* the discard loop comparing whole tuples instead of email-addresses
SelfDedupByTuple(header_to_, header_self_) ==
  {addr_to \in header_to_ : \A addr_self \in header_self_ : addr_self # addr_to}

\* the To addresses left by the discard loop (lines 144-148)
SelfDedup(header_to_, header_self_) ==
  {addr_to \in header_to_ :
     \A addr_self \in header_self_ : addr_self[2] # addr_to[2]}

\* the orders in which a set can be iterated
RECURSIVE Orders(_)
Orders(set) ==
  IF set = {} THEN {<<>>}
  ELSE UNION {{<<e>> \o o : o \in Orders(set \ {e})} : e \in set}

\* ', '.join of the formatted addresses in iteration order (lines 151-158)
Render(order) ==
  join(<<",", " ">>, [i \in DOMAIN order |-> formataddr(order[i])])

\* ------------------------------------------------------------------------
\* Inputs of the model

\* the longest header list drawn
MaxHeaders == 3

E_B == <<"b", "@", "y", ".", "c">>
E_C == <<"c", "@", "z", ".", "c">>
E_W == <<"a", "@", "x", "y", "c">>
N_B == <<"B", " ", "<", "b", "@", "y", ".", "c", ">">>
N_C == <<"C", " ", "<", "c", "@", "z", ".", "c", ">">>
L_AB == <<"a", "@", "x", ".", "c", ",", " ", "B", " ", "<", "b", "@", "y", ".", "c", ">">>
D_X == <<"x", ".", "c">>
D_Y == <<"y", ".", "c">>
REF1 == <<"<", "r", "1", ">">>
MID1 == <<"<", "m", "1", ">">>
SUBJ == <<"h", "i">>

\* the addresses of the documented scenarios
ALICE == <<"A", "l", "i", "c", "e", " ", "<", "a", "l", "i", "c", "e", "@", "a", ".", "c", "o", "m", ">">>
BOB == <<"B", "o", "b", " ", "<", "b", "o", "b", "@", "b", ".", "c", "o", "m", ">">>
AUDIT == <<"a", "u", "d", "i", "t", "@", "a", ".", "c", "o", "m">>
USERCORP == <<"u", "s", "e", "r", "@", "c", "o", "r", "p", ".", "c", "o", "m">>
D_CORP == <<"c", "o", "r", "p", ".", "c", "o", "m">>
D_OTHER == <<"o", "t", "h", "e", "r", ".", "c", "o", "m">>
SA == <<"A", " ", "<", "a", "@", "x", ".", "c", "o", "m", ">">>
SB == <<"B", " ", "<", "b", "@", "y", ".", "c", "o", "m", ">">>

HeaderPool ==
  { <<"From", E_W>>, <<"From", N_C>>,
    <<"To", L_AB>>, <<"To", E_C>>,
    <<"Cc", N_B>>,
    <<"Delivered-To", E_B>>, <<"Delivered-To", N_B>>,
    <<"References", REF1>>, <<"Message-Id", MID1>>, <<"Subject", SUBJ>> }

HeaderLists == UNION {[1..n -> HeaderPool] : n \in 0..MaxHeaders}

EnforceLists == { <<>>, <<E_B, E_C, N_C>> }

\* (allowed_domains, allowed_users)
Policies == { <<<<>>, <<>>>>, <<<<D_X>>, <<>>>>, <<<<D_Y>>, <<E_C>>>> }

Scenarios ==
  { [headers |-> << <<"From", SA>>, <<"To", SB>>, <<"Delivered-To", SB>> >>,
     enforce_cc |-> <<>>, allowed_domains |-> <<>>, allowed_users |-> <<>>],
    [headers |-> << <<"From", ALICE>>, <<"To", BOB>>, <<"Delivered-To", BOB>> >>,
     enforce_cc |-> <<AUDIT>>, allowed_domains |-> <<>>, allowed_users |-> <<>>],
    [headers |-> << <<"From", USERCORP>>, <<"Delivered-To", E_B>> >>,
     enforce_cc |-> <<>>, allowed_domains |-> <<D_CORP>>, allowed_users |-> <<>>],
    [headers |-> << <<"From", USERCORP>>, <<"Delivered-To", E_B>> >>,
     enforce_cc |-> <<>>, allowed_domains |-> <<D_OTHER>>, allowed_users |-> <<>>] }

\* ------------------------------------------------------------------------
\* State

VARIABLES
  \* ProcessEmailHeaders.run: its arguments
  headers, enforce_cc, allowed_domains, allowed_users,
  \* ProcessEmailHeaders.run: its locals, the logger and how it ended
  pc, header_to, header_from, header_cc, header_self, header_references,
  header_in_reply_to, result, log, outcome,
  \* SendEmail.run: self.config and its arguments
  config, account, email_to, email_cc, message_text, message_html,
  message_images,
  \* SendEmail.run: its locals, the SMTP session and how it ended
  spc, account_data, toaddrs, alt_parts, root_parts, files_opened,
  smtp_calls, session, send_outcome, send_error

hdr_inputs == <<headers, enforce_cc, allowed_domains, allowed_users>>
hdr_sets == <<header_to, header_from, header_cc, header_self>>
hdr_vars == <<hdr_inputs, pc, hdr_sets, header_references, header_in_reply_to,
              result, log, outcome>>
send_inputs == <<config, account, email_to, email_cc, message_text, message_html,
                 message_images>>
send_vars == <<send_inputs, spc, account_data, toaddrs, alt_parts, root_parts,
               files_opened, smtp_calls, session, send_outcome, send_error>>
vars == <<hdr_vars, send_vars>>

\* ------------------------------------------------------------------------
\* ProcessEmailHeaders.run (lines 164-179)

\* line 165, before parse_headers is called
HdrStart(inp) ==
  /\ headers = inp.headers
  /\ enforce_cc = inp.enforce_cc
  /\ allowed_domains = inp.allowed_domains
  /\ allowed_users = inp.allowed_users
  /\ pc = "parse"
  /\ header_to = {} /\ header_from = {} /\ header_cc = {} /\ header_self = {}
  /\ header_references = <<>> /\ header_in_reply_to = <<>>
  /\ result = [to |-> <<>>, from |-> <<>>, cc |-> <<>>]
  /\ log = <<>>
  /\ outcome = "running"

\* lines 166-167
ParseHeaders ==
  /\ pc = "parse"
  /\ \E r \in {parse_headers(headers)} :
        /\ header_to' = r.header_to
        /\ header_from' = r.header_from
        /\ header_cc' = r.header_cc
        /\ header_self' = r.header_self
        /\ header_references' = r.header_references
        /\ header_in_reply_to' = r.header_reply_to
  /\ pc' = "allow"
  /\ UNCHANGED <<hdr_inputs, result, log, outcome, send_vars>>

PolicyConfigured == allowed_domains # <<>> \/ allowed_users # <<>>

\* lines 168-169: no policy, or the sender is allowed
AllowListPass ==
  /\ pc = "allow"
  /\ PolicyConfigured => check_allowed(header_from, allowed_domains, allowed_users)
  /\ pc' = "enforce"
  /\ UNCHANGED <<hdr_inputs, hdr_sets, header_references, header_in_reply_to,
                 result, log, outcome, send_vars>>

\* lines 169-172: header_from.pop() takes any element of the set; the log
\* line is written, then sys.exit(1)
AllowListReject ==
  /\ pc = "allow"
  /\ PolicyConfigured
  /\ ~check_allowed(header_from, allowed_domains, allowed_users)
  /\ \E addr_tuple \in header_from :
       /\ header_from' = header_from \ {addr_tuple}
       /\ log' = Append(log, [level |-> "info",
                              msg |-> <<"User not permitted: ", formataddr(addr_tuple)>>])
  /\ outcome' = "exit1"
  /\ pc' = "done"
  /\ UNCHANGED <<hdr_inputs, header_to, header_cc, header_self, header_references,
                 header_in_reply_to, result, send_vars>>

\* line 171 on an empty From set: set.pop() raises KeyError before the log
\* call and before sys.exit
AllowListRejectEmpty ==
  /\ pc = "allow"
  /\ PolicyConfigured
  /\ ~check_allowed(header_from, allowed_domains, allowed_users)
  /\ header_from = {}
  /\ outcome' = "KeyError"
  /\ pc' = "done"
  /\ UNCHANGED <<hdr_inputs, hdr_sets, header_references, header_in_reply_to,
                 result, log, send_vars>>

\* lines 173-175
EnforceCc ==
  /\ pc = "enforce"
  /\ header_cc' = IF enforce_cc # <<>>
                  THEN add_enforced_cc(enforce_cc, header_to, header_cc, header_from)
                  ELSE header_cc
  /\ pc' = "results"
  /\ UNCHANGED <<hdr_inputs, header_to, header_from, header_self, header_references,
                 header_in_reply_to, result, log, outcome, send_vars>>

\* lines 176-179 with process_results (lines 144-162): the sets are iterated
\* in any order, header_self.pop() takes any element
ProcessResults ==
  /\ pc = "results"
  /\ header_self # {}
  /\ \E order_to \in Orders(SelfDedup(header_to, header_self) \cup header_from),
        order_cc \in Orders(header_cc), addr_self \in header_self :
       /\ result' = [to |-> Render(order_to), cc |-> Render(order_cc),
                     from |-> formataddr(addr_self),
                     references |-> header_references,
                     in_reply_to |-> header_in_reply_to]
       /\ header_self' = header_self \ {addr_self}
  /\ header_to' = SelfDedup(header_to, header_self)
  /\ outcome' = "returned"
  /\ pc' = "done"
  /\ UNCHANGED <<hdr_inputs, header_from, header_cc, header_references,
                 header_in_reply_to, log, send_vars>>

\* process_results guarding the pop: an empty Delivered-To set gives an
\* empty 'from' and the result is returned
ProcessResultsEmptySelf_Guarded ==
  /\ pc = "results"
  /\ header_self = {}
  /\ \E order_to \in Orders(SelfDedup(header_to, header_self) \cup header_from),
        order_cc \in Orders(header_cc) :
       result' = [to |-> Render(order_to), cc |-> Render(order_cc),
                  from |-> <<>>, references |-> header_references,
                  in_reply_to |-> header_in_reply_to]
  /\ outcome' = "returned"
  /\ pc' = "done"
  /\ UNCHANGED <<hdr_inputs, hdr_sets, header_references, header_in_reply_to,
                 log, send_vars>>

\* process_results on an empty Delivered-To set: 'to' and 'cc' are stored,
\* then header_self.pop() raises KeyError at line 159
ProcessResultsEmptySelf ==
  /\ pc = "results"
  /\ header_self = {}
  /\ \E order_to \in Orders(SelfDedup(header_to, header_self) \cup header_from),
        order_cc \in Orders(header_cc) :
       result' = [result EXCEPT !.to = Render(order_to), !.cc = Render(order_cc)]
  /\ outcome' = "KeyError"
  /\ pc' = "done"
  /\ UNCHANGED <<hdr_inputs, hdr_sets, header_references, header_in_reply_to,
                 log, send_vars>>

HdrNext ==
  \/ ParseHeaders
  \/ AllowListPass
  \/ AllowListReject
  \/ AllowListRejectEmpty
  \/ EnforceCc
  \/ ProcessResults
  \/ ProcessResultsEmptySelf

\* ------------------------------------------------------------------------
\* SendEmail: inputs of the model

\* the longest message_images list drawn
MaxImages == 2

PORT_OK == <<"5", "8", "7">>
PORT_BAD == <<"t", "l", "s">>
ACCT_MAIN == [server |-> "smtp.example.org", port |-> PORT_OK,
              username |-> "main-user", password |-> "main-pw"]
ACCT_BACKUP == [server |-> "smtp.backup.org", port |-> PORT_BAD,
                username |-> "backup-user", password |-> "backup-pw"]

\* self.config: no 'imap_mailboxes' key, an empty mapping, one or two accounts
Configs ==
  { <<>>,
    [imap_mailboxes |-> <<>>],
    [imap_mailboxes |-> [a \in {"main"} |-> ACCT_MAIN]],
    [imap_mailboxes |-> [a \in {"main", "backup"} |->
                           IF a = "main" THEN ACCT_MAIN ELSE ACCT_BACKUP]] }

AccountNames == {"main", "backup", "other"}

IMG_PNG == <<"/", "t", "/", "a", ".", "p", "n", "g">>
IMG_RAW == <<"/", "t", "/", "b", ".", "x", "y">>
IMG_GONE == <<"/", "t", "/", "c", ".", "p", "n", "g">>

\* the local filesystem: whether open() succeeds, and whether MIMEImage
\* guesses a subtype from the bytes
Readable(image) == image # IMG_GONE
Guessable(image) == image = IMG_PNG

ImagePool == {IMG_PNG, IMG_RAW, IMG_GONE}
ImageLists == UNION {[1..n -> ImagePool] : n \in 0..MaxImages}

TEXT == <<"h", "i">>
HTML == <<"<", "b", ">", "h", "i">>

\* ------------------------------------------------------------------------
\* SendEmail.run (send_html_email.py lines 43-95)

NoError == [type |-> "none", msg |-> "", available |-> {}]

SendStart(cfg, acct, to, cc, text, html, images) ==
  /\ config = cfg /\ account = acct
  /\ email_to = to /\ email_cc = cc
  /\ message_text = text /\ message_html = html
  /\ message_images = images
  /\ spc = "account"
  /\ account_data = <<>>
  /\ toaddrs = <<>> /\ alt_parts = <<>> /\ root_parts = <<>>
  /\ files_opened = <<>>
  /\ smtp_calls = <<>>
  /\ session = "none"
  /\ send_outcome = "running"
  /\ send_error = NoError

\* self.config.get('imap_mailboxes', None) is None (line 44)
AccountsMissing == "imap_mailboxes" \notin DOMAIN config
\* the mapping, read only when it is not None
Accounts == config["imap_mailboxes"]

Raise(type, msg, available) ==
  /\ send_outcome' = type
  /\ send_error' = [type |-> type, msg |-> msg, available |-> available]
  /\ spc' = "done"

\* the lookup without the check for an empty mapping (line 47)
ResolveAccount_NoEmptyCheck ==
  /\ spc = "account"
  /\ IF AccountsMissing
     THEN /\ Raise("ValueError", "\"imap_mailboxes\" config value is required to send email.", {})
          /\ UNCHANGED account_data
     ELSE IF account \notin DOMAIN Accounts
     THEN /\ Raise("KeyError", "The account does not seem to appear in the configuration. Available accounts are:",
                   DOMAIN Accounts)
          /\ UNCHANGED account_data
     ELSE /\ account_data' = Accounts[account]
          /\ spc' = "build"
          /\ UNCHANGED <<send_outcome, send_error>>
  /\ UNCHANGED <<send_inputs, toaddrs, alt_parts, root_parts, files_opened,
                 smtp_calls, session, hdr_vars>>

\* lines 43-55
ResolveAccount ==
  /\ spc = "account"
  /\ IF AccountsMissing
     THEN /\ Raise("ValueError", "\"imap_mailboxes\" config value is required to send email.", {})
          /\ UNCHANGED account_data
     ELSE IF DOMAIN Accounts = {}
     THEN /\ Raise("ValueError", "at least one account is required to send email.", {})
          /\ UNCHANGED account_data
     ELSE IF account \notin DOMAIN Accounts
     THEN /\ Raise("KeyError", "The account does not seem to appear in the configuration. Available accounts are:",
                   DOMAIN Accounts)
          /\ UNCHANGED account_data
     ELSE /\ account_data' = Accounts[account]
          /\ spc' = "build"
          /\ UNCHANGED <<send_outcome, send_error>>
  /\ UNCHANGED <<send_inputs, toaddrs, alt_parts, root_parts, files_opened,
                 smtp_calls, session, hdr_vars>>

\* lines 57-74: the envelope recipients and the alternative part
BuildMessage ==
  /\ spc = "build"
  /\ toaddrs' = IF email_cc # <<>>
                THEN split(email_to, <<",", " ">>) \o split(email_cc, <<",", " ">>)
                ELSE split(email_to, <<",", " ">>)
  /\ alt_parts' = (IF message_text # <<>> THEN <<"plain">> ELSE <<>>)
                  \o (IF message_html # <<>> THEN <<"html">> ELSE <<>>)
  /\ root_parts' = <<[type |-> "alternative", subtype |-> <<>>, content_id |-> <<>>]>>
  /\ spc' = "images"
  /\ UNCHANGED <<send_inputs, account_data, files_opened, smtp_calls, session,
                 send_outcome, send_error, hdr_vars>>

Last(seq) == seq[Len(seq)]

\* lines 76-87, one iteration: the file is opened and read, the part is
\* tagged with its file name and attached
AttachImage ==
  /\ spc = "images"
  /\ Len(files_opened) < Len(message_images)
  /\ LET image == message_images[Len(files_opened) + 1]
         name == Last(split(image, <<"/">>))
     IN /\ Readable(image)
        /\ files_opened' = Append(files_opened, image)
        /\ root_parts' = Append(root_parts,
             [type |-> "image",
              subtype |-> IF Guessable(image) THEN <<"p", "n", "g">>
                          ELSE Last(split(name, <<".">>)),
              content_id |-> <<"<">> \o name \o <<">">>])
  /\ UNCHANGED <<send_inputs, spc, account_data, toaddrs, alt_parts, smtp_calls,
                 session, send_outcome, send_error, hdr_vars>>

\* line 78 on a path that cannot be opened
AttachImageFails ==
  /\ spc = "images"
  /\ Len(files_opened) < Len(message_images)
  /\ ~Readable(message_images[Len(files_opened) + 1])
  /\ Raise("IOError", "No such file or directory", {})
  /\ UNCHANGED <<send_inputs, account_data, toaddrs, alt_parts, root_parts,
                 files_opened, smtp_calls, session, hdr_vars>>

IsInt(str) ==
  str # <<>> /\ \A k \in 1..Len(str) :
    str[k] \in {"0", "1", "2", "3", "4", "5", "6", "7", "8", "9"}

\* one call on the session s: it succeeds or raises, whatever the server does
SmtpCall(op, ok) ==
  /\ smtp_calls' = Append(smtp_calls, [op |-> op, ok |-> ok])
  /\ IF ok
     THEN UNCHANGED <<send_outcome, send_error>> /\ spc' = "smtp"
     ELSE Raise("SMTPException", op, {})

\* line 89: int(port), then the constructor connects
SmtpConnect ==
  /\ spc = "images"
  /\ Len(files_opened) = Len(message_images)
  /\ IF ~IsInt(account_data.port)
     THEN /\ Raise("ValueError", "invalid literal for int()", {})
          /\ UNCHANGED <<smtp_calls, session>>
     ELSE \E ok \in BOOLEAN :
            /\ SmtpCall("connect", ok)
            /\ session' = IF ok THEN "open" ELSE "none"
  /\ UNCHANGED <<send_inputs, account_data, toaddrs, alt_parts, root_parts,
                 files_opened, hdr_vars>>

\* a call wrapped so that the session is quit when the call raises
SmtpStep_QuitOnError(op, prev) ==
  /\ spc = "smtp"
  /\ Last(smtp_calls) = [op |-> prev, ok |-> TRUE]
  /\ \E ok \in BOOLEAN :
       /\ SmtpCall(op, ok)
       /\ session' = IF ok THEN session ELSE "closed"
  /\ UNCHANGED <<send_inputs, account_data, toaddrs, alt_parts, root_parts,
                 files_opened, hdr_vars>>

\* a call made once the call before it has returned; the code does nothing
\* with the session when the call raises
SmtpStep(op, prev) ==
  /\ spc = "smtp"
  /\ Last(smtp_calls) = [op |-> prev, ok |-> TRUE]
  /\ \E ok \in BOOLEAN : SmtpCall(op, ok)
  /\ UNCHANGED <<send_inputs, account_data, toaddrs, alt_parts, root_parts,
                 files_opened, session, hdr_vars>>

\* line 90
SmtpEhlo == spc = "smtp" /\ SmtpStep("ehlo", "connect")
\* line 91
SmtpStarttls == spc = "smtp" /\ SmtpStep("starttls", "ehlo")
\* line 92
SmtpLogin == spc = "smtp" /\ SmtpStep("login", "starttls")
\* line 93
SmtpSendmail == spc = "smtp" /\ SmtpStep("sendmail", "login")

\* lines 94-95: quit() ends the session whether or not the server answers;
\* run then returns
SmtpQuit ==
  /\ spc = "smtp"
  /\ Last(smtp_calls) = [op |-> "sendmail", ok |-> TRUE]
  /\ session' = "closed"
  /\ \E ok \in BOOLEAN :
       /\ smtp_calls' = Append(smtp_calls, [op |-> "quit", ok |-> ok])
       /\ IF ok
          THEN /\ send_outcome' = "returned"
               /\ spc' = "done"
               /\ UNCHANGED send_error
          ELSE Raise("SMTPException", "quit", {})
  /\ UNCHANGED <<send_inputs, account_data, toaddrs, alt_parts, root_parts,
                 files_opened, hdr_vars>>

SendNext ==
  \/ ResolveAccount
  \/ BuildMessage
  \/ AttachImage
  \/ AttachImageFails
  \/ SmtpConnect
  \/ SmtpEhlo
  \/ SmtpStarttls
  \/ SmtpLogin
  \/ SmtpSendmail
  \/ SmtpQuit

\* ------------------------------------------------------------------------
\* Specifications

\* the action that is not invoked stays as constructed
HdrIdle ==
  HdrStart([headers |-> <<>>, enforce_cc |-> <<>>, allowed_domains |-> <<>>,
            allowed_users |-> <<>>])
SendIdle == SendStart(<<>>, "main", <<>>, <<>>, <<>>, <<>>, <<>>)

\* one invocation of ProcessEmailHeaders.run
Init ==
  /\ SendIdle
  /\ \/ \E h \in HeaderLists, e \in EnforceLists, p \in Policies :
          HdrStart([headers |-> h, enforce_cc |-> e,
                    allowed_domains |-> p[1], allowed_users |-> p[2]])
     \/ \E inp \in Scenarios : HdrStart(inp)
Next == HdrNext
Spec == Init /\ [][Next]_vars

\* one invocation of SendEmail.run
InitSend ==
  /\ HdrIdle
  /\ \E cfg \in Configs, acct \in AccountNames, to \in {E_B, L_AB},
        cc \in {<<>>, E_C}, text \in {<<>>, TEXT}, html \in {<<>>, HTML},
        images \in ImageLists :
       SendStart(cfg, acct, to, cc, text, html, images)
NextSend == SendNext
SpecSend == InitSend /\ [][NextSend]_vars

\* ------------------------------------------------------------------------
\* Properties of ProcessEmailHeaders (specification Spec)

\* the sets parse_headers returns for the invocation's headers
Parsed == parse_headers(headers)

\* the allow-list stage rejects the parsed From set
Rejecting ==
  PolicyConfigured /\ ~check_allowed(Parsed.header_from, allowed_domains, allowed_users)

Contains(str, sub) == sub = <<>> \/ Find(str, sub) # 0

\* C1: whenever a policy is configured and check_allowed is false for the
\* parsed From set (also when there is no From address at all), run writes a
\* log line naming the rejected sender and exits with status 1; it returns no
\* result and ends in no other error.
C1_RejectionExitsWithStatus1 ==
  (pc = "done" /\ Rejecting) =>
    /\ outcome = "exit1"
    /\ Len(log) = 1
    /\ \E addr_tuple \in Parsed.header_from :
         log[1].msg = <<"User not permitted: ", formataddr(addr_tuple)>>

\* the email-address ends with '@' + d, character for character
EndsWithDomain(email, d) ==
  /\ Len(email) >= Len(d) + 1
  /\ SubSeq(email, Len(email) - Len(d), Len(email)) = <<"@">> \o d

\* the email-address ends with a match of the pattern fragment '@' + d, in
\* which a "." of d stands for any character
EndsWithDomainPattern(email, d) ==
  /\ Len(email) >= Len(d) + 1
  /\ email[Len(email) - Len(d)] = "@"
  /\ \A k \in 1..Len(d) : d[k] # "." => email[Len(email) - Len(d) + k] = d[k]

\* the whole email-address matches the pattern fragment u
WholeMatchesUser(email, u) ==
  /\ Len(email) = Len(u)
  /\ \A k \in 1..Len(u) : u[k] # "." => email[k] = u[k]

AnyUserMatches(from_set) ==
  \E t \in from_set : \E i \in 1..Len(allowed_users) :
    WholeMatchesUser(t[2], allowed_users[i])

UserCorpOnly == << <<"From", USERCORP>>, <<"Delivered-To", E_B>> >>

\* C2 as claimed: check_allowed is true iff some from-address ends with
\* '@' + d for an allowed domain d, or matches an allowed user as a whole.
C2_LiteralDomainSuffix ==
  pc \in {"allow", "enforce"} =>
    (check_allowed(header_from, allowed_domains, allowed_users)
      <=> \/ \E t \in header_from : \E i \in 1..Len(allowed_domains) :
               EndsWithDomain(t[2], allowed_domains[i])
          \/ AnyUserMatches(header_from))

\* C2 as amended: check_allowed is true iff some from-address ends with a
\* match of the pattern '@' + d for an allowed domain d (d is a pattern
\* fragment: its "." matches any character), or matches an allowed user
\* pattern as a whole string; otherwise it is false.  user@corp.com is
\* accepted with allowed_domains = [corp.com] and rejected with [other.com].
C2_PatternDomainSuffix ==
  /\ pc \in {"allow", "enforce"} =>
       (check_allowed(header_from, allowed_domains, allowed_users)
         <=> \/ \E t \in header_from : \E i \in 1..Len(allowed_domains) :
                  EndsWithDomainPattern(t[2], allowed_domains[i])
             \/ AnyUserMatches(header_from))
  /\ (pc = "done" /\ headers = UserCorpOnly /\ allowed_domains = <<D_CORP>>)
       => outcome = "returned"
  /\ (pc = "done" /\ headers = UserCorpOnly /\ allowed_domains = <<D_OTHER>>)
       => outcome = "exit1"

\* C2 witness: a sender passed the allow-list through a domain whose "."
\* matched another character
C2_Witness ==
  /\ pc = "enforce"
  /\ allowed_domains = <<D_X>> /\ allowed_users = <<>>
  /\ header_from = {<<<<>>, E_W>>}

ScenarioAB == << <<"From", SA>>, <<"To", SB>>, <<"Delivered-To", SB>> >>

\* C3: in a returned result, `to` renders exactly the To addresses whose
\* email-address equals no Delivered-To email-address, united with all From
\* addresses, and `from` is a formatted Delivered-To address; for the
\* documented headers `to` contains "A <a@x.com>", not "B <b@y.com>", and
\* `from` is "B <b@y.com>".
C3_ToIsDedupedToPlusFrom ==
  outcome = "returned" =>
    /\ \E o \in Orders({t \in Parsed.header_to :
                          ~\E sf \in Parsed.header_self : sf[2] = t[2]}
                       \cup Parsed.header_from) :
         result.to = Render(o)
    /\ \E sf \in Parsed.header_self : result.from = formataddr(sf)
    /\ headers = ScenarioAB =>
         /\ Contains(result.to, SA)
         /\ ~Contains(result.to, SB)
         /\ result.from = SB

\* C3 witness: a result was returned after a To address was dropped as the
\* Delivered-To address and the sender was merged in
C3_Witness ==
  /\ outcome = "returned"
  /\ Parsed.header_to # header_to
  /\ Parsed.header_from # {}
  /\ result.to # <<>>

ScenarioAliceBob ==
  << <<"From", ALICE>>, <<"To", BOB>>, <<"Delivered-To", BOB>> >>

AliceBobInvoked ==
  /\ headers = ScenarioAliceBob
  /\ enforce_cc = <<AUDIT>>
  /\ allowed_domains = <<>> /\ allowed_users = <<>>

\* C4 as claimed: the documented run returns to = "Alice <alice@a.com>",
\* cc = "<audit@a.com>" and from = "Bob <bob@b.com>".
C4_CcInAngleBrackets ==
  (pc = "done" /\ AliceBobInvoked) =>
    /\ outcome = "returned"
    /\ result.to = <<"A", "l", "i", "c", "e", " ", "<", "a", "l", "i", "c", "e",
                     "@", "a", ".", "c", "o", "m", ">">>
    /\ result.cc = <<"<", "a", "u", "d", "i", "t", "@", "a", ".", "c", "o", "m", ">">>
    /\ result.from = <<"B", "o", "b", " ", "<", "b", "o", "b", "@", "b", ".",
                       "c", "o", "m", ">">>

\* C4 as amended: the documented run returns to = "Alice <alice@a.com>",
\* cc = "audit@a.com" (an address with an empty display name is rendered
\* bare, without angle brackets) and from = "Bob <bob@b.com>".
C4_CcBare ==
  (pc = "done" /\ AliceBobInvoked) =>
    /\ outcome = "returned"
    /\ result.to = <<"A", "l", "i", "c", "e", " ", "<", "a", "l", "i", "c", "e",
                     "@", "a", ".", "c", "o", "m", ">">>
    /\ result.cc = <<"a", "u", "d", "i", "t", "@", "a", ".", "c", "o", "m">>
    /\ result.from = <<"B", "o", "b", " ", "<", "b", "o", "b", "@", "b", ".",
                       "c", "o", "m", ">">>

\* C4 witness: the documented run has ended
C4_Witness == pc = "done" /\ AliceBobInvoked /\ result.cc # <<>>

\* C5: add_enforced_cc applied again, to the cc set its first application
\* returned and the same list, To set and From set, returns that cc set.
C5_EnforceIdempotent ==
  (pc \in {"results", "done"} /\ outcome \in {"running", "returned"}
     /\ enforce_cc # <<>>) =>
    add_enforced_cc(enforce_cc, Parsed.header_to, header_cc, header_from)
      = header_cc

\* C5 witness: the list repeats an email-address under two display names
\* and only its first entry was added
C5_Witness ==
  /\ pc = "results"
  /\ enforce_cc = <<E_B, E_C, N_C>>
  /\ Parsed.header_cc # {}
  /\ <<<<>>, E_C>> \in header_cc \ Parsed.header_cc
  /\ <<<<"C">>, E_C>> \notin header_cc

NoDeliveredTo == \A i \in 1..Len(headers) : headers[i][1] # DELIVERED_TO_HEADER_STRING

\* C6: with no Delivered-To header and no rejection, run fails with the
\* KeyError of an empty set and returns nothing; with a Delivered-To header
\* and no rejection, it returns and `from` is a formatted address of the
\* Delivered-To set.
C6_EmptySelfFails ==
  (pc = "done" /\ ~Rejecting) =>
    /\ NoDeliveredTo => (outcome = "KeyError" /\ result.from = <<>>)
    /\ ~NoDeliveredTo =>
         /\ outcome = "returned"
         /\ \E sf \in Parsed.header_self : result.from = formataddr(sf)

\* C6 witness: an invocation without a Delivered-To header passed the
\* allow-list and failed at result assembly
C6_Witness ==
  /\ pc = "done" /\ NoDeliveredTo /\ outcome = "KeyError"
  /\ PolicyConfigured /\ ~Rejecting
  /\ Parsed.header_to # {}

OneToOneFrom ==
  /\ Cardinality({i \in 1..Len(headers) : headers[i][1] = TO_HEADER_STRING}) = 1
  /\ Cardinality({i \in 1..Len(headers) : headers[i][1] = FROM_HEADER_STRING}) = 1
  /\ \A i \in 1..Len(headers) :
       headers[i][1] \notin {CC_HEADER_STRING, DELIVERED_TO_HEADER_STRING}

\* the number of commas in the value of the header called name
Commas(name) ==
  LET i == CHOOSE j \in 1..Len(headers) : headers[j][1] = name
  IN Cardinality({k \in 1..Len(headers[i][2]) : headers[i][2][k] = ","})

\* C9 as claimed: one To header, one From header and no Cc or Delivered-To
\* header give a to_set and a from_set of size 1 and empty cc and self sets,
\* whatever the values.
C9_SizeOne ==
  (pc = "allow" /\ OneToOneFrom) =>
    /\ Cardinality(header_to) = 1
    /\ Cardinality(header_from) = 1
    /\ header_cc = {} /\ header_self = {}

\* C9 as amended: such a header list gives empty cc and self sets, and a
\* to_set (from_set) of at least 1 and at most 1 + n addresses, n the
\* number of commas in the To (From) value: size 1 when the value holds no
\* comma.
C9_SizeByCommas ==
  (pc = "allow" /\ OneToOneFrom) =>
    /\ Cardinality(header_to) \in 1..(1 + Commas(TO_HEADER_STRING))
    /\ Cardinality(header_from) \in 1..(1 + Commas(FROM_HEADER_STRING))
    /\ header_cc = {} /\ header_self = {}

\* C9 witness: a single To header whose value holds a comma was parsed to
\* two addresses
C9_Witness ==
  pc = "allow" /\ OneToOneFrom /\ Cardinality(header_to) = 2

\* C10: in a returned result every address of enforce_cc is a recipient:
\* its email-address appears in `to` or in `cc`.
C10_EnforcedAlwaysRecipient ==
  outcome = "returned" =>
    \A i \in 1..Len(enforce_cc) :
      \/ Contains(result.to, parseaddr(enforce_cc[i])[2])
      \/ Contains(result.cc, parseaddr(enforce_cc[i])[2])

\* ------------------------------------------------------------------------
\* Properties of SendEmail (specification SpecSend)

NothingOpened == files_opened = <<>> /\ smtp_calls = <<>> /\ session = "none"

NoAccounts == AccountsMissing \/ DOMAIN Accounts = {}

\* C7: run resolves the account first: with no account mapping (missing or
\* empty) it raises a configuration error, with an unknown account name a
\* distinct account-not-found error that lists the configured names; in
\* both cases no image file is read and no SMTP connection is opened.
C7_AccountResolvedFirst ==
  /\ spc = "account" => (NothingOpened /\ root_parts = <<>>)
  /\ (spc # "account" /\ NoAccounts) =>
       /\ spc = "done" /\ send_outcome = "ValueError"
       /\ send_error.type = "ValueError"
       /\ NothingOpened
  /\ (spc # "account" /\ ~NoAccounts /\ account \notin DOMAIN Accounts) =>
       /\ spc = "done" /\ send_outcome = "KeyError"
       /\ send_error.type = "KeyError"
       /\ send_error.available = DOMAIN Accounts
       /\ NothingOpened

\* C7 witness: an unknown account name was refused while images were given
C7_Witness ==
  /\ spc = "done" /\ send_outcome = "KeyError"
  /\ send_error.available = {"main", "backup"}
  /\ message_images # <<>>

SmtpOrder == <<"connect", "ehlo", "starttls", "login", "sendmail", "quit">>

SendmailSucceeded == Len(smtp_calls) >= 5 /\ smtp_calls[5].ok

\* C8: an invocation opens at most one SMTP session and drives it in the
\* order connect, EHLO, STARTTLS, login, sendmail, quit, each step made only
\* after the one before it succeeded; the session is quit iff sendmail
\* succeeded, and a failed EHLO, STARTTLS, login or sendmail ends the
\* invocation with that error, without retry, the session left open.
C8_OneSessionInOrder ==
  /\ Len(smtp_calls) <= Len(SmtpOrder)
  /\ \A i \in 1..Len(smtp_calls) :
       /\ smtp_calls[i].op = SmtpOrder[i]
       /\ i < Len(smtp_calls) => smtp_calls[i].ok
  /\ session # "none" <=> (smtp_calls # <<>> /\ smtp_calls[1].ok)
  /\ session = "closed" => SendmailSucceeded
  /\ spc = "done" => (session = "closed" <=> SendmailSucceeded)
  /\ (smtp_calls # <<>> /\ ~Last(smtp_calls).ok) =>
       /\ spc = "done" /\ send_outcome = "SMTPException"
       /\ send_error.msg = Last(smtp_calls).op
       /\ Last(smtp_calls).op \in {"ehlo", "starttls", "login", "sendmail"}
            => session = "open"

\* C8 witness: the login failed after connect, EHLO and STARTTLS succeeded,
\* and the run ended with the session open
C8_Witness ==
  /\ spc = "done"
  /\ Len(smtp_calls) = 4 /\ ~smtp_calls[4].ok
  /\ session = "open"

====
